---- MODULE Spec2Model ----
(***************************************************************************)
(* Model of src/app.py, the Streamlit dashboard of agrisig_data.           *)
(*                                                                         *)
(* The script is re-executed top to bottom for every interaction of a      *)
(* browser session.  One action of the model is one whole execution of the *)
(* script for one session.  The state is what outlives an execution: the   *)
(* GeoJSON file, the st.cache_data entry of load_data (one per server      *)
(* process, shared by all sessions), and per session st.session_state.data,*)
(* the state of the widgets, and what the last execution put on the page.  *)
(*                                                                         *)
(* Streamlit runs the executions of one session one after the other, and   *)
(* an execution touches the file at most once (the load of line 23 or the  *)
(* write of line 70, never both), so an execution is taken as one step.    *)
(* A session name stands for a browser tab: after Disconnect the           *)
(* same name connecting again is a new session with an empty               *)
(* session_state.                                                          *)
(*                                                                         *)
(* Spec has one tab and every interaction of the page, SpecReliable is     *)
(* Spec on a disk whose writes never raise, SpecShared has two tabs.       *)
(*                                                                         *)
(* Units: superficie is held in thousandths of a hectare (3.5 ha = 3500),  *)
(* coordinates in tenths of a degree (-13.7 = -137).                       *)
(***************************************************************************)
EXTENDS Integers, Sequences, FiniteSets

VARIABLES file, cache, open, loaded, data, sel, opts, ui

vars == <<file, cache, open, loaded, data, sel, opts, ui>>

(* ---------------- bounds of the model ---------------- *)

\* largest in-memory collection a session may grow by submitting the form
MaxLen == 3

\* the browser sessions that can be connected to the server at the same time
Sessions == {"A", "B"}

(* ---------------- records and the persisted file ---------------- *)

\* app.py:56 the placeholder ring, in tenths of a degree
coords_demo == << <<-137, 95>>, <<-136, 95>>, <<-136, 96>>, <<-137, 96>>, <<-137, 95>> >>

\* app.py:57 Polygon(coords_demo)
new_geom == [shell |-> coords_demo]

\* app.py:50 number_input(min_value=0.1), in thousandths of a hectare
MinSuperficie == 100

\* app.py:51 number_input(min_value=0)
MinRendement == 0

\* parcels found in data/parcelles_multiculture.geojson when the server starts
ParcelA == [culture |-> "mais", region |-> "Kindia", superficie |-> 2004,
            rendement_kg_ha |-> 1000,
            geometry |-> [shell |-> << <<-130, 100>>, <<-129, 100>>, <<-129, 101>>, <<-130, 100>> >>]]

ParcelB == [culture |-> "riz", region |-> "Mamou", superficie |-> 1500,
            rendement_kg_ha |-> 2000,
            geometry |-> [shell |-> << <<-120, 103>>, <<-119, 103>>, <<-119, 104>>, <<-120, 103>> >>]]

InitialCollections == { <<ParcelA>>, <<ParcelA, ParcelB>> }

\* values a user types into the form (app.py:48-51)
FormInputs ==
    { [culture |-> "sorgho", region |-> "Kindia", superficie |-> 3500, rendement |-> 800],
      [culture |-> "mais",   region |-> "Labe",   superficie |-> MinSuperficie, rendement |-> MinRendement],
      [culture |-> "mais",   region |-> "Kindia", superficie |-> 1500, rendement |-> 800] }

\* the values typed when two browsers are connected
SharedInputs ==
    { [culture |-> "sorgho", region |-> "Kindia", superficie |-> 3500, rendement |-> 800],
      [culture |-> "mais",   region |-> "Labe",   superficie |-> MinSuperficie, rendement |-> MinRendement] }

NoInput == [culture |-> "", region |-> "", superficie |-> MinSuperficie, rendement |-> MinRendement]

\* one GeoJSON feature of the file
Feature(r) ==
    [type |-> "Feature",
     properties |-> [culture |-> r.culture, region |-> r.region,
                     superficie |-> r.superficie, rendement_kg_ha |-> r.rendement_kg_ha],
     geometry |-> [type |-> "Polygon", coordinates |-> <<r.geometry.shell>>]]

\* one row of the GeoDataFrame read back from a feature
Row(f) ==
    [culture |-> f.properties.culture, region |-> f.properties.region,
     superficie |-> f.properties.superficie,
     rendement_kg_ha |-> f.properties.rendement_kg_ha,
     geometry |-> [shell |-> f.geometry.coordinates[1]]]

\* app.py:15 gdf.to_file(filepath, driver="GeoJSON"): the whole collection, replacing the file
to_file(gdf) == [ok |-> TRUE, features |-> [i \in 1..Len(gdf) |-> Feature(gdf[i])]]

\* app.py:14-15
save_data(gdf) == to_file(gdf)

\* what a write that raises leaves on disk: the file as it was (the error came
\* before the file was opened) or a truncated, unreadable file
FailedWrites(f) == { f, [ok |-> FALSE, features |-> <<>>] }

\* app.py:20 gpd.read_file
read_file(f) == [i \in 1..Len(f.features) |-> Row(f.features[i])]

(* ---------------- the pure parts of the script ---------------- *)

Range(xs) == {xs[i] : i \in 1..Len(xs)}

\* data['region'], data['culture'], ...
Column(gdf, name) == [i \in 1..Len(gdf) |-> gdf[i][name]]

\* Series.unique(): the distinct values in order of first appearance
RECURSIVE unique(_)
unique(xs) ==
    IF xs = <<>> THEN <<>>
    ELSE LET front == unique(SubSeq(xs, 1, Len(xs) - 1))
             x == xs[Len(xs)]
         IN IF x \in Range(front) THEN front ELSE Append(front, x)

\* app.py:32-36 and 38-42: the value a multiselect returns.  A widget without
\* a key is identified by its label, options and default; while these stay
\* the same it returns the selection stored for it, and when the options
\* differ from those it was last built with it is a new widget and returns
\* its default, which here is every option.
multiselect(options, builtWith, stored) ==
    IF options = builtWith THEN stored ELSE Range(options)

\* app.py:59-65
new_row(inp) ==
    << [culture |-> inp.culture, region |-> inp.region,
        superficie |-> inp.superficie, rendement_kg_ha |-> inp.rendement,
        geometry |-> new_geom] >>

\* faulty variant of concat: the new rows are put first
concat_front(a, b) == b \o a

\* app.py:67 pd.concat([a, b], ignore_index=True)
concat(a, b) == a \o b

\* faulty variant of isin_mask: the two tests joined by | instead of &
isin_mask_or(gdf, regions, cultures) ==
    [i \in 1..Len(gdf) |-> (gdf[i].region \in regions) \/ (gdf[i].culture \in cultures)]

\* app.py:76-77 the boolean mask
isin_mask(gdf, regions, cultures) ==
    [i \in 1..Len(gdf) |-> (gdf[i].region \in regions) /\ (gdf[i].culture \in cultures)]

\* gdf[mask]: the rows whose mask entry is true, in order
RECURSIVE bool_index(_, _)
bool_index(gdf, mask) ==
    IF gdf = <<>> THEN <<>>
    ELSE LET n == Len(gdf)
             front == bool_index(SubSeq(gdf, 1, n - 1), SubSeq(mask, 1, n - 1))
         IN IF mask[n] THEN Append(front, gdf[n]) ELSE front

\* app.py:75-78
filtered_gdf(gdf, regions, cultures) == bool_index(gdf, isin_mask(gdf, regions, cultures))

\* Series.sum()
RECURSIVE series_sum(_)
series_sum(xs) == IF xs = <<>> THEN 0 ELSE xs[1] + series_sum(Tail(xs))

\* round(x, 2) of a value held in thousandths: the nearest hundredth, a tie
\* going to the even hundredth
round2(x) ==
    LET q == x \div 10
        r == x % 10
    IN IF r < 5 THEN 10 * q
       ELSE IF r > 5 THEN 10 * (q + 1)
       ELSE IF q % 2 = 0 THEN 10 * q ELSE 10 * (q + 1)

\* app.py:90
total_area(view) == round2(series_sum(Column(view, "superficie")))

RECURSIVE gcd(_, _)
gcd(a, b) == IF b = 0 THEN a ELSE gcd(b, a % b)

\* sum / count as a fraction in lowest terms
mean(xs) ==
    LET s == series_sum(xs)
        n == Len(xs)
        g == gcd(s, n)
    IN [num |-> s \div g, den |-> n \div g]

\* faulty variant of rendement_df: the yields of a group summed, not averaged
rendement_df_sum(view) ==
    [k \in Range(Column(view, "culture")) |->
        [num |-> series_sum(Column(bool_index(view, [i \in 1..Len(view) |-> view[i].culture = k]),
                                   "rendement_kg_ha")),
         den |-> 1]]

\* app.py:95 groupby("culture")["rendement_kg_ha"].mean()
rendement_df(view) ==
    [k \in Range(Column(view, "culture")) |->
        mean(Column(bool_index(view, [i \in 1..Len(view) |-> view[i].culture = k]),
                    "rendement_kg_ha"))]

\* DataFrame.drop(columns="geometry")
drop_geometry(view) ==
    [i \in 1..Len(view) |->
        [culture |-> view[i].culture, region |-> view[i].region,
         superficie |-> view[i].superficie, rendement_kg_ha |-> view[i].rendement_kg_ha]]

\* app.py:112 to_csv(index=False): the header line, then one line per row
to_csv(table) ==
    [header |-> <<"culture", "region", "superficie", "rendement_kg_ha">>,
     lines |-> [i \in 1..Len(table) |->
                  <<table[i].culture, table[i].region, table[i].superficie,
                    table[i].rendement_kg_ha>>]]

(* ---------------- what one execution puts on the page ---------------- *)

NoChart == [k \in {} |-> [num |-> 0, den |-> 1]]

\* nothing rendered: the session has not run the script yet
BlankPage ==
    [status |-> "none", success |-> FALSE, echo |-> NoInput, map |-> <<>>,
     count |-> 0, area |-> 0, chart_shown |-> FALSE, chart |-> NoChart,
     warning |-> FALSE, table |-> <<>>, csv |-> to_csv(<<>>), export |-> FALSE]

\* an exception left the script: the page shows the traceback and none of
\* the elements the script had still to produce
ErrorPage == [BlankPage EXCEPT !.status = "error"]

\* faulty variant of chart_section: the test of line 94 left out
chart_section_unguarded(view) ==
    [chart_shown |-> TRUE, chart |-> rendement_df(view), warning |-> FALSE]

\* app.py:94-105 the chart, or the warning that stands for it
chart_section(view) ==
    IF view # <<>>
    THEN [chart_shown |-> TRUE, chart |-> rendement_df(view), warning |-> FALSE]
    ELSE [chart_shown |-> FALSE, chart |-> NoChart, warning |-> TRUE]

\* app.py:72-118 for an execution that reaches the end of the script
render(view, submitted, inp) ==
    [status |-> "ok",
     success |-> submitted,                                  \* app.py:72
     echo |-> IF submitted THEN inp ELSE NoInput,
     map |-> view,                                           \* app.py:83
     count |-> Len(view),                                    \* app.py:89
     area |-> total_area(view),                              \* app.py:90
     chart_shown |-> chart_section(view).chart_shown,        \* app.py:94-103
     chart |-> chart_section(view).chart,
     warning |-> chart_section(view).warning,                \* app.py:104-105
     table |-> drop_geometry(view),                          \* app.py:109
     csv |-> to_csv(drop_geometry(view)),                    \* app.py:112
     export |-> TRUE]                                        \* app.py:113-118

(* ---------------- one execution of the script ---------------- *)

\* app.py:18-20 load_data under st.cache_data: the cached value when there is
\* one, else the file, which is then cached.  ok is FALSE when the read raises.
load_data ==
    IF cache.valid THEN [ok |-> TRUE, value |-> cache.value, cache |-> cache]
    ELSE IF file.ok
         THEN [ok |-> TRUE, value |-> read_file(file),
               cache |-> [valid |-> TRUE, value |-> read_file(file)]]
         ELSE [ok |-> FALSE, value |-> <<>>, cache |-> cache]

\* faulty variant of session_data: the test of line 22 left out
session_data_reload(s) == load_data

\* app.py:22-23: load only when the session has no "data" yet
session_data(s) ==
    IF loaded[s] THEN [ok |-> TRUE, value |-> data[s], cache |-> cache]
    ELSE load_data

\* faulty variant of after_failed_write: the collection put back as it was
after_failed_write_rollback(result, before, disk) ==
    [result EXCEPT !.file = disk.file, !.ui = ErrorPage, !.data = before]

\* app.py:67-72 when save_data raises: the assignment of line 67 has been
\* made and stays, line 72 and the rest of the script are not reached
after_failed_write(result, before, disk) ==
    [result EXCEPT !.file = disk.file, !.ui = ErrorPage]

\* app.py:22-118, one execution for session s.  stored is the selection the
\* browser holds for the two multiselects, submit tells whether the form was
\* submitted with values inp, and disk is what the write of line 70 leaves
\* on disk together with whether it raised.
script(s, stored, submit, inp, disk) ==
    LET ld == session_data(s)
        d0 == ld.value
        ro == unique(Column(d0, "region"))                   \* app.py:34
        co == unique(Column(d0, "culture"))                  \* app.py:40
        regions == multiselect(ro, opts[s].regions, stored.regions)
        cultures == multiselect(co, opts[s].cultures, stored.cultures)
        d1 == IF submit THEN concat(d0, new_row(inp)) ELSE d0   \* app.py:67
        base == [file |-> file, cache |-> ld.cache, loaded |-> TRUE, data |-> d1,
                 sel |-> [regions |-> regions, cultures |-> cultures],
                 opts |-> [regions |-> ro, cultures |-> co],
                 ui |-> render(filtered_gdf(d1, regions, cultures), submit, inp)]
    IN IF ~ld.ok
       THEN [file |-> file, cache |-> cache, loaded |-> FALSE, data |-> data[s],
             sel |-> sel[s], opts |-> opts[s], ui |-> ErrorPage]
       ELSE IF submit /\ disk.raised
       THEN after_failed_write(base, d0, disk)
       ELSE IF submit
       THEN [base EXCEPT !.file = disk.file]                  \* app.py:70
       ELSE base

\* faulty variant of Apply: the collection kept in one place for the whole
\* server process instead of in each session's session_state
Apply_global(s, r) ==
    /\ file' = r.file
    /\ cache' = r.cache
    /\ loaded' = [loaded EXCEPT ![s] = r.loaded]
    /\ data' = [t \in Sessions |-> IF t = s \/ loaded[t] THEN r.data ELSE data[t]]
    /\ sel' = [sel EXCEPT ![s] = r.sel]
    /\ opts' = [opts EXCEPT ![s] = r.opts]
    /\ ui' = [ui EXCEPT ![s] = r.ui]

\* the effect of one execution: st.session_state, the widget state and the
\* page belong to the session; the file and the cache to the server
Apply(s, r) ==
    /\ file' = r.file
    /\ cache' = r.cache
    /\ loaded' = [loaded EXCEPT ![s] = r.loaded]
    /\ data' = [data EXCEPT ![s] = r.data]
    /\ sel' = [sel EXCEPT ![s] = r.sel]
    /\ opts' = [opts EXCEPT ![s] = r.opts]
    /\ ui' = [ui EXCEPT ![s] = r.ui]

NoDisk == [raised |-> FALSE, file |-> file]

(* ---------------- state and actions ---------------- *)

NoSelection == [regions |-> {}, cultures |-> {}]
NoOptions == [regions |-> <<>>, cultures |-> <<>>]

Init ==
    /\ \E c \in InitialCollections : file = to_file(c)
    /\ cache = [valid |-> FALSE, value |-> <<>>]
    /\ open = [s \in Sessions |-> FALSE]
    /\ loaded = [s \in Sessions |-> FALSE]
    /\ data = [s \in Sessions |-> <<>>]
    /\ sel = [s \in Sessions |-> NoSelection]
    /\ opts = [s \in Sessions |-> NoOptions]
    /\ ui = [s \in Sessions |-> BlankPage]

\* a browser opens the page: a new session, and the first execution
Connect(s) ==
    /\ ~open[s]
    /\ open' = [open EXCEPT ![s] = TRUE]
    /\ Apply(s, script(s, sel[s], FALSE, NoInput, NoDisk))

\* a rerun that changes no widget
Rerun(s) ==
    /\ open[s]
    /\ UNCHANGED open
    /\ Apply(s, script(s, sel[s], FALSE, NoInput, NoDisk))

\* a click on the download button (app.py:113), which reruns the script
Download(s) ==
    /\ open[s]
    /\ ui[s].export
    /\ UNCHANGED open
    /\ Apply(s, script(s, sel[s], FALSE, NoInput, NoDisk))

\* the user changes the region multiselect to R, chosen among the options shown
FilterRegion(s, R) ==
    /\ open[s]
    /\ loaded[s]
    /\ R \subseteq Range(opts[s].regions)
    /\ UNCHANGED open
    /\ Apply(s, script(s, [sel[s] EXCEPT !.regions = R], FALSE, NoInput, NoDisk))

\* the user changes the culture multiselect to C, chosen among the options shown
FilterCulture(s, C) ==
    /\ open[s]
    /\ loaded[s]
    /\ C \subseteq Range(opts[s].cultures)
    /\ UNCHANGED open
    /\ Apply(s, script(s, [sel[s] EXCEPT !.cultures = C], FALSE, NoInput, NoDisk))

\* the form is submitted and the file is written (app.py:55-72)
Submit(s, inp) ==
    /\ open[s]
    /\ loaded[s]
    /\ Len(data[s]) < MaxLen
    /\ UNCHANGED open
    /\ Apply(s, script(s, sel[s], TRUE, inp,
                       [raised |-> FALSE, file |-> save_data(concat(data[s], new_row(inp)))]))

\* the form is submitted and to_file raises, leaving f on disk
SubmitWriteFails(s, inp, f) ==
    /\ open[s]
    /\ loaded[s]
    /\ Len(data[s]) < MaxLen
    /\ f \in FailedWrites(file)
    /\ UNCHANGED open
    /\ Apply(s, script(s, sel[s], TRUE, inp, [raised |-> TRUE, file |-> f]))

\* the browser tab is closed: the session and its session_state are dropped
Disconnect(s) ==
    /\ open[s]
    /\ open' = [open EXCEPT ![s] = FALSE]
    /\ loaded' = [loaded EXCEPT ![s] = FALSE]
    /\ data' = [data EXCEPT ![s] = <<>>]
    /\ sel' = [sel EXCEPT ![s] = NoSelection]
    /\ opts' = [opts EXCEPT ![s] = NoOptions]
    /\ ui' = [ui EXCEPT ![s] = BlankPage]
    /\ UNCHANGED <<file, cache>>

\* the server process is restarted: every session and the cache are lost,
\* the file stays
RestartServer ==
    /\ cache.valid \/ \E s \in Sessions : open[s]
    /\ cache' = [valid |-> FALSE, value |-> <<>>]
    /\ open' = [s \in Sessions |-> FALSE]
    /\ loaded' = [s \in Sessions |-> FALSE]
    /\ data' = [s \in Sessions |-> <<>>]
    /\ sel' = [s \in Sessions |-> NoSelection]
    /\ opts' = [s \in Sessions |-> NoOptions]
    /\ ui' = [s \in Sessions |-> BlankPage]
    /\ UNCHANGED file

\* the interactions of one session that neither touch the multiselects nor
\* meet a failing disk
Interact(s, inputs) ==
    \/ Connect(s)
    \/ Rerun(s)
    \/ Download(s)
    \/ \E inp \in inputs : Submit(s, inp)
    \/ Disconnect(s)

\* a submission whose write raises
FailingSubmit(s, inputs) ==
    \E inp \in inputs : \E f \in FailedWrites(file) : SubmitWriteFails(s, inp, f)

\* the filter changes of one session
Filter(s) ==
    \/ \E R \in SUBSET Range(opts[s].regions) : FilterRegion(s, R)
    \/ \E C \in SUBSET Range(opts[s].cultures) : FilterCulture(s, C)

\* one browser at a time: sessions follow one another on the same server,
\* with every interaction of the page
Next ==
    \/ Interact("A", FormInputs)
    \/ FailingSubmit("A", FormInputs)
    \/ Filter("A")
    \/ RestartServer

Spec == Init /\ [][Next]_vars

\* one browser at a time and a disk whose writes all complete
NextReliable ==
    \/ Interact("A", FormInputs)
    \/ Filter("A")
    \/ RestartServer

SpecReliable == Init /\ [][NextReliable]_vars

\* two browsers connected to the same server.  The multiselects stay as the
\* script builds them; they decide only what is rendered, not the collection,
\* the cache or the file.
NextShared ==
    \/ \E s \in Sessions : Interact(s, SharedInputs)
    \/ \E s \in Sessions : FailingSubmit(s, SharedInputs)
    \/ RestartServer

SpecShared == Init /\ [][NextShared]_vars

(* ======================= properties ======================= *)

\* In the properties about steps an implication "step of kind A => B" is
\* written B \/ ~A, the same formula with the side that is cheaper to
\* evaluate first.

\* the positions of the session's collection that the selection of the last
\* execution keeps
Matching(s) ==
    {i \in 1..Len(data[s]) :
        data[s][i].region \in sel[s].regions /\ data[s][i].culture \in sel[s].cultures}

\* the j-th smallest element of a set of positions
Nth(I, j) == CHOOSE i \in I : Cardinality({k \in I : k <= i}) = j

Rendered(s) == ui[s].status = "ok"

\* the record a submission of inp is to add
Submitted(inp) ==
    [culture |-> inp.culture, region |-> inp.region, superficie |-> inp.superficie,
     rendement_kg_ha |-> inp.rendement,
     geometry |-> [shell |-> << <<-137, 95>>, <<-136, 95>>, <<-136, 96>>, <<-137, 96>>, <<-137, 95>> >>]]

\* a step in which session s submits inp, whether or not the write completes
Submits(s, inp) ==
    \/ Submit(s, inp)
    \/ \E f \in FailedWrites(file) : SubmitWriteFails(s, inp, f)

\* C1: after every execution that renders the page, the filtered view is
\* the subsequence of the session's collection made of exactly the records
\* whose region is selected and whose culture is selected, in the
\* collection's order, each once; with no region or no culture selected the
\* view is empty.
C1_FilterIsExactSubsequence ==
    \A s \in Sessions :
        Rendered(s) =>
            /\ Len(ui[s].map) = Cardinality(Matching(s))
            /\ \A j \in 1..Len(ui[s].map) : ui[s].map[j] = data[s][Nth(Matching(s), j)]
            /\ (sel[s].regions = {} \/ sel[s].cultures = {}) => ui[s].map = <<>>

\* a view that keeps the first and third record and drops the second
C1_Witness ==
    \E s \in Sessions :
        /\ Rendered(s)
        /\ Len(data[s]) = 3
        /\ Matching(s) = {1, 3}
        /\ ui[s].map = <<data[s][1], data[s][3]>>

\* C2: every form submission leaves the records the collection had in
\* place and in order and adds exactly one record, last, with the submitted
\* culture, region, superficie and rendement_kg_ha and the placeholder polygon.
C2_SubmitAppendsOne ==
    [][\A s \in Sessions : \A inp \in FormInputs :
          \/ /\ Len(data'[s]) = Len(data[s]) + 1
             /\ SubSeq(data'[s], 1, Len(data[s])) = data[s]
             /\ data'[s][Len(data'[s])] = Submitted(inp)
          \/ ~Submits(s, inp)]_vars

\* a collection that has grown by a submitted record
C2_Witness ==
    \E s \in Sessions : \E inp \in FormInputs :
        /\ ui[s].success
        /\ ui[s].echo = inp
        /\ Len(data[s]) >= 2
        /\ data[s][Len(data[s])] = Submitted(inp)

\* C3: a session started after a completed submission gets from load the
\* collection the file holds at that moment, the added record included, also
\* when it starts in the server process that served the submission.
C3_FreshSessionReadsFile ==
    [][\A s \in Sessions :
          \/ data'[s] = read_file(file)
          \/ ~(file.ok /\ loaded'[s] /\ Connect(s))]_vars

\* C4: with one session at a time and every write completing, a submission
\* leaves in the file exactly the session's collection, and the file holds
\* exactly one record more than before the submission.
C4_FileGrowsByOne ==
    [][\A s \in Sessions : \A inp \in FormInputs :
          \/ /\ file'.ok
             /\ read_file(file') = data'[s]
             /\ Len(file'.features) = Len(file.features) + 1
          \/ ~(file.ok /\ Submit(s, inp))]_vars

\* C5: a submission in one session leaves the collection of every other
\* session as it was, and its write, made with no look at what the file
\* holds, leaves in the file exactly the submitting session's collection.
C5_SessionsIndependent ==
    [][\A s \in Sessions : \A inp \in SharedInputs :
          /\ \/ \A t \in Sessions \ {s} : data'[t] = data[t] /\ loaded'[t] = loaded[t]
             \/ ~Submits(s, inp)
          /\ \/ file'.ok /\ read_file(file') = data'[s]
             \/ ~Submit(s, inp)]_vars

\* both sessions are connected, both have been shown the acknowledgment of
\* their last submission, and the file, written last by B, does not hold the
\* record A submitted
C5_Witness ==
    /\ loaded["A"] /\ loaded["B"]
    /\ ui["A"].success /\ ui["B"].success
    /\ ui["A"].echo # ui["B"].echo
    /\ data["A"][Len(data["A"])] = Submitted(ui["A"].echo)
    /\ file.ok
    /\ read_file(file) = data["B"]
    /\ Submitted(ui["A"].echo) \notin Range(read_file(file))

\* the sum of a field over a set of positions of a collection
RECURSIVE SumAt(_, _, _)
SumAt(gdf, I, field) ==
    IF I = {} THEN 0
    ELSE LET i == CHOOSE x \in I : TRUE
         IN gdf[i][field] + SumAt(gdf, I \ {i}, field)

Abs(x) == IF x < 0 THEN -x ELSE x

\* the positions the selection keeps whose culture is k
MatchingOf(s, k) == {i \in Matching(s) : data[s][i].culture = k}

\* the count and the chart of a rendered page, taken over the kept records
\* only: the count is their number, the chart has one entry for each culture
\* among them and none for any other, and the entry is the mean of
\* rendement_kg_ha over the kept records of that culture
CountAndChartOverView(s) ==
    /\ ui[s].count = Cardinality(Matching(s))
    /\ DOMAIN ui[s].chart = {data[s][i].culture : i \in Matching(s)}
    /\ \A k \in DOMAIN ui[s].chart :
          /\ ui[s].chart[k].den > 0
          /\ ui[s].chart[k].num * Cardinality(MatchingOf(s, k))
                = ui[s].chart[k].den * SumAt(data[s], MatchingOf(s, k), "rendement_kg_ha")

\* C6 as stated: on every rendered page the count, the chart and the total
\* area are taken over the filtered view, and the total area shown equals
\* the sum of superficie over the records of the view.
C6_AreaIsExactSum ==
    \A s \in Sessions :
        Rendered(s) =>
            /\ CountAndChartOverView(s)
            /\ ui[s].area = SumAt(data[s], Matching(s), "superficie")

\* C6 as amended: on every rendered page the count, the chart and the total
\* area are taken over the filtered view, and the total area shown is the
\* sum of superficie over the records of the view rounded to 2 decimals (a
\* whole number of hundredths, at most half a hundredth from the sum).
C6_SummaryOverView ==
    \A s \in Sessions :
        Rendered(s) =>
            /\ CountAndChartOverView(s)
            /\ ui[s].area % 10 = 0
            /\ Abs(ui[s].area - SumAt(data[s], Matching(s), "superficie")) <= 5

\* a page whose view leaves out a record with a culture of its own, holds
\* two records of one culture with different yields, and whose total area
\* is not the unrounded sum
C6_Witness ==
    \E s \in Sessions :
        /\ Rendered(s)
        /\ Cardinality(Matching(s)) < Len(data[s])
        /\ \E i \in 1..Len(data[s]) : data[s][i].culture \notin DOMAIN ui[s].chart
        /\ \E k \in DOMAIN ui[s].chart :
              \E i, j \in MatchingOf(s, k) :
                  data[s][i].rendement_kg_ha # data[s][j].rendement_kg_ha
        /\ ui[s].area # SumAt(data[s], Matching(s), "superficie")

\* the interactions of s that are not a form submission
Reruns(s) ==
    \/ Rerun(s)
    \/ Download(s)
    \/ \E R \in SUBSET Range(opts[s].regions) : FilterRegion(s, R)
    \/ \E C \in SUBSET Range(opts[s].cultures) : FilterCulture(s, C)

C8_DefaultShowsAll ==
    \A s \in Sessions :
        (/\ Rendered(s)
         /\ sel[s].regions = Range(opts[s].regions)
         /\ sel[s].cultures = Range(opts[s].cultures)) =>
            /\ ui[s].map = data[s]
            /\ Range(opts[s].regions) = {data[s][i].region : i \in 1..Len(data[s])}
            /\ Range(opts[s].cultures) = {data[s][i].culture : i \in 1..Len(data[s])}

IsPrefix(a, b) == Len(a) <= Len(b) /\ SubSeq(b, 1, Len(a)) = a

\* C9: once a session has its collection, an interaction that is not a form
\* submission leaves the collection, the file and the cache entry of
\* load_data as they are, and as long as the session lives its collection
\* only grows at the end: the earlier collection is a prefix of the later.
C9_OnlySubmitChanges ==
    [][\A s \in Sessions :
          /\ \/ data'[s] = data[s] /\ file' = file /\ cache' = cache
             \/ ~(loaded[s] /\ Reruns(s))
          /\ \/ file' = file
             \/ ~(Reruns(s) \/ Connect(s))
          /\ (loaded[s] /\ loaded'[s]) => IsPrefix(data[s], data'[s])]_vars

\* a page rendered by an interaction that is no submission, in a session
\* whose collection holds a record added after the load
C9_Witness ==
    \E s \in Sessions :
        /\ loaded[s]
        /\ Rendered(s)
        /\ ~ui[s].success
        /\ cache.valid
        /\ Len(data[s]) > Len(cache.value)

\* C10: a submission whose write raises ends on the error page with no
\* acknowledgment, keeps the new record at the end of the collection, and
\* puts nothing of it in the file, which stays as it was or is unreadable;
\* when the file held the session's collection it now lacks the new record.
\* The next submission of the session, when its write completes, leaves in
\* the file the whole collection, the record of the failed submission and
\* the new one as its last two.
C10_FailedWriteKeepsRecord ==
    [][\A s \in Sessions : \A inp \in FormInputs :
          /\ \/ /\ ui'[s].status = "error"
                /\ ~ui'[s].success
                /\ data'[s] = Append(data[s], Submitted(inp))
                /\ (file' = file \/ ~file'.ok)
                /\ (file.ok /\ read_file(file) = data[s]) =>
                      (file'.ok => /\ IsPrefix(read_file(file'), data'[s])
                                   /\ Len(file'.features) < Len(data'[s]))
             \/ ~(\E f \in FailedWrites(file) : SubmitWriteFails(s, inp, f))
          /\ \/ /\ ui'[s].success
                /\ file'.ok
                /\ read_file(file') = Append(data[s], Submitted(inp))
                /\ Len(data[s]) >= 1
             \/ ~(ui[s].status = "error" /\ Submit(s, inp))]_vars

\* the session after a failed write: the error page, and a collection one
\* record longer than the file, which holds the rest of it
C10_Witness ==
    \E s \in Sessions :
        /\ loaded[s]
        /\ ui[s].status = "error"
        /\ file.ok
        /\ Len(data[s]) = Len(file.features) + 1
        /\ IsPrefix(read_file(file), data[s])
        /\ data[s][Len(data[s])].geometry = [shell |-> coords_demo]

====
